---- MODULE Spec2Model ----
(***************************************************************************)
(* Model of excel_quality_check.py: the ExcelQualityChecker class (loader, *)
(* profilers, scanners, recommendation synthesizer, advanced run) and the  *)
(* main() harness.                                                         *)
(*                                                                         *)
(* A cell is a record [k, n, s]: k = "nan" (missing), "num" (number n) or  *)
(* "str" (text s, a sequence of one-character strings).  A column is a     *)
(* record [dtype, cells]; a column's name is its position, so names are    *)
(* unique and iteration order is position order.  Percentages are kept as  *)
(* hundredths of a percent (two decimals), with a separate not-a-number    *)
(* flag.  A call's outcome is a record [raised, val]: raised = "none" when *)
(* the call returned val, otherwise the name of the exception.             *)
(***************************************************************************)
EXTENDS Integers, Sequences, FiniteSets, TLC

VARIABLES sheet, df, pc, parsed, out, last

vars == <<sheet, df, pc, parsed, out, last>>

(* ------------------------------ bounds -------------------------------- *)

MaxRows == 3

MaxCols == 2

MaxCells == 6

(* ------------------------------ cells --------------------------------- *)

NaN == [k |-> "nan", n |-> 0, s |-> <<>>]

Num(v) == [k |-> "num", n |-> v, s |-> <<>>]

Str(t) == [k |-> "str", n |-> 0, s |-> t]

isnull(c) == c.k = "nan"

dropna(cells) == SelectSeq(cells, LAMBDA c : ~isnull(c))

Ok(v) == [raised |-> "none", val |-> v]

Raised(e) == [raised |-> e, val |-> <<>>]

(* ----------------------- Python str operations ------------------------ *)

LowerLetters == <<"a","b","c","d","e","f","g","h","i","j","k","l","m",
                  "n","o","p","q","r","s","t","u","v","w","x","y","z">>

UpperLetters == <<"A","B","C","D","E","F","G","H","I","J","K","L","M",
                  "N","O","P","Q","R","S","T","U","V","W","X","Y","Z">>

Digits == <<"0","1","2","3","4","5","6","7","8","9">>

Whitespace == {" ", "\t", "\n"}

Range(f) == {f[i] : i \in DOMAIN f}

IsUpperChar(c) == c \in Range(UpperLetters)

IsLowerChar(c) == c \in Range(LowerLetters)

IsAlnumChar(c) == IsUpperChar(c) \/ IsLowerChar(c) \/ c \in Range(Digits)

LowerChar(c) ==
  IF IsUpperChar(c)
  THEN LowerLetters[CHOOSE i \in 1..26 : UpperLetters[i] = c]
  ELSE c

UpperChar(c) ==
  IF IsLowerChar(c)
  THEN UpperLetters[CHOOSE i \in 1..26 : LowerLetters[i] = c]
  ELSE c

\* str.lower()
lower(t) == [i \in 1..Len(t) |-> LowerChar(t[i])]

\* str.upper()
upper(t) == [i \in 1..Len(t) |-> UpperChar(t[i])]

RECURSIVE lstrip(_)
lstrip(t) ==
  IF t # <<>> /\ Head(t) \in Whitespace THEN lstrip(Tail(t)) ELSE t

RECURSIVE rstrip(_)
rstrip(t) ==
  IF t # <<>> /\ t[Len(t)] \in Whitespace
  THEN rstrip(SubSeq(t, 1, Len(t) - 1))
  ELSE t

\* str.strip()
strip(t) == rstrip(lstrip(t))

\* str.isalnum(): at least one character and every character alphanumeric
isalnum(t) == Len(t) > 0 /\ \A i \in 1..Len(t) : IsAlnumChar(t[i])

\* str(x) of a cell held in a column of the given dtype
pystr(c, dtype) ==
  IF c.k = "str" THEN c.s
  ELSE IF c.k = "nan" THEN <<"n","a","n">>
  ELSE IF dtype = "float64" THEN <<Digits[c.n + 1], ".", "0">>
  ELSE <<Digits[c.n + 1]>>

(* ------------------------------ loader -------------------------------- *)

\* dtype pandas infers for a parsed column
InferDtype(cells) ==
  IF Len(cells) = 0 THEN "object"
  ELSE IF \E i \in 1..Len(cells) : cells[i].k = "str" THEN "object"
  ELSE IF \E i \in 1..Len(cells) : cells[i].k = "nan" THEN "float64"
  ELSE "int64"

NoDf == [loaded |-> FALSE, cols |-> <<>>]

\* pd.read_excel(file_path) on a readable spreadsheet
read_excel(sh) ==
  [loaded |-> TRUE,
   cols |-> [j \in 1..Len(sh.cols) |->
               [dtype |-> InferDtype(sh.cols[j]), cells |-> sh.cols[j]]]]

\* the constructor without its existence test
PathExistsSkipped(sh) == TRUE

\* self.file_path.exists()
PathExists(sh) == sh.exists

\* ExcelQualityChecker.__init__: outcome, resulting self.df, and whether
\* the spreadsheet parser was invoked
Construct(sh) ==
  IF ~PathExists(sh)
  THEN [res |-> Raised("FileNotFoundError"), df |-> NoDf, parsed |-> FALSE]
  ELSE IF ~sh.exists
  THEN [res |-> Raised("FileNotFoundError"), df |-> NoDf, parsed |-> TRUE]
  ELSE IF ~sh.ok
  THEN [res |-> Raised("ParseError"), df |-> NoDf, parsed |-> TRUE]
  ELSE [res |-> Ok(<<>>), df |-> read_excel(sh), parsed |-> TRUE]

\* len(self.df)
NRows(d) == Len(d.cols[1].cells)

NCols(d) == Len(d.cols)

Row(d, i) == [j \in 1..NCols(d) |-> d.cols[j].cells[i]]

(* --------------------------- null profiler ---------------------------- *)

PctNaN == [nan |-> TRUE, h |-> 0]

Pct(h) == [nan |-> FALSE, h |-> h]

\* round(k / n * 100, 2) in hundredths, ties to even; n > 0
Round2Pct(k, n) ==
  LET q == (k * 10000) \div n
      r == (k * 10000) % n
  IN  IF 2 * r < n THEN Pct(q)
      ELSE IF 2 * r > n THEN Pct(q + 1)
      ELSE IF q % 2 = 0 THEN Pct(q) ELSE Pct(q + 1)

\* count / len(self.df) * 100, rounded; a zero row count divides 0 by 0,
\* which numpy and pandas evaluate to not-a-number without raising
PctOf(k, n) == IF n = 0 THEN PctNaN ELSE Round2Pct(k, n)

NullCount(cells) == Len(SelectSeq(cells, isnull))

check_null_values(d) ==
  Ok([j \in 1..NCols(d) |-> PctOf(NullCount(d.cols[j].cells), NRows(d))])

(* ------------------------- duplicate profiler ------------------------- *)

\* duplicated(keep=False): every member of a group of equal rows
duplicatedKeepNone(d, i) ==
  \E j \in (1..NRows(d)) \ {i} : Row(d, j) = Row(d, i)

\* self.df.duplicated(): row i repeats an earlier row (keep='first')
duplicated(d, i) == \E j \in 1..(i - 1) : Row(d, j) = Row(d, i)

DuplicateCount(d) == Cardinality({i \in 1..NRows(d) : duplicated(d, i)})

check_duplicates(d) ==
  Ok([total_rows |-> NRows(d),
      duplicate_rows |-> DuplicateCount(d),
      duplicate_percentage |-> PctOf(DuplicateCount(d), NRows(d))])

(* --------------------------- type profiler ---------------------------- *)

check_column_types(d) == Ok([j \in 1..NCols(d) |-> d.cols[j].dtype])

(* -------------------------- outlier detector -------------------------- *)

\* self.df.select_dtypes(include=[np.number]).columns
NumericCols(d) == {j \in 1..NCols(d) : d.cols[j].dtype \in {"int64", "float64"}}

\* the non-missing numbers of a numeric column, in row order
Values(cells) == [i \in 1..Len(dropna(cells)) |-> dropna(cells)[i].n]

RECURSIVE SumSeq(_)
SumSeq(xs) == IF xs = <<>> THEN 0 ELSE Head(xs) + SumSeq(Tail(xs))

\* abs(zscore(xs))[i] > t, with mean and population standard deviation of
\* xs, cleared of the division: z^2 = n (n x - S)^2 / Sum_i (n x_i - S)^2.
\* A zero deviation gives a not-a-number z, which compares False.
ZExceeds(xs, i, t) ==
  LET n == Len(xs)
      S == SumSeq(xs)
      D == SumSeq([k \in 1..n |-> (n * xs[k] - S) * (n * xs[k] - S)])
  IN  D > 0 /\ n * (n * xs[i] - S) * (n * xs[i] - S) > t * t * D

\* self.df[col][z_scores > threshold].tolist(); the mask has one entry per
\* non-missing value and must be as long as the column
ZscoreColumn(cells, t) ==
  LET xs == Values(cells)
  IN  SelectSeq([i \in 1..Len(xs) |-> [x |-> xs[i], hit |-> ZExceeds(xs, i, t)]],
                LAMBDA e : e.hit)

\* a mask that does not fit makes the boolean indexing raise IndexError
\* (IndexingError, for a mask that is itself a Series)
MaskError == "IndexError"

MaskFits(cells) == Len(dropna(cells)) = Len(cells)

RECURSIVE Insert(_, _)
Insert(x, xs) ==
  IF xs = <<>> THEN <<x>>
  ELSE IF x <= Head(xs) THEN <<x>> \o xs
  ELSE <<Head(xs)>> \o Insert(x, Tail(xs))

RECURSIVE Sorted(_)
Sorted(xs) == IF xs = <<>> THEN <<>> ELSE Insert(Head(xs), Sorted(Tail(xs)))

\* 4 * Series.quantile(num / 4) with linear interpolation over the sorted
\* non-missing values xs (non-empty)
Quantile4(xs, num) ==
  LET ys == Sorted(xs)
      lo == (num * (Len(ys) - 1)) \div 4
      r  == (num * (Len(ys) - 1)) % 4
  IN  IF r = 0 THEN 4 * ys[lo + 1]
      ELSE 4 * ys[lo + 1] + r * (ys[lo + 2] - ys[lo + 1])

\* value < Q1 - 1.5 IQR or value > Q3 + 1.5 IQR, scaled by 8
IqrExceeds(xs, x) ==
  LET Q1 == Quantile4(xs, 1)
      Q3 == Quantile4(xs, 3)
  IN  \/ 8 * x < 2 * Q1 - 3 * (Q3 - Q1)
      \/ 8 * x > 2 * Q3 + 3 * (Q3 - Q1)

\* missing cells compare False against the fences and are never listed
IqrColumn(cells) ==
  LET xs == Values(cells)
  IN  SelectSeq(xs, LAMBDA x : IqrExceeds(xs, x))

detect_outliers(d, method, threshold) ==
  IF method = "zscore"
  THEN IF \E j \in NumericCols(d) : ~MaskFits(d.cols[j].cells)
       THEN Raised(MaskError)
       ELSE Ok([j \in NumericCols(d) |->
                  [i \in 1..Len(ZscoreColumn(d.cols[j].cells, threshold)) |->
                     ZscoreColumn(d.cols[j].cells, threshold)[i].x]])
  ELSE IF method = "iqr"
  THEN Ok([j \in NumericCols(d) |-> IqrColumn(d.cols[j].cells)])
  ELSE Ok([j \in {} |-> <<>>])

(* --------------------- format consistency scanner --------------------- *)

\* self.df.select_dtypes(include=['object']).columns
StringCols(d) == {j \in 1..NCols(d) : d.cols[j].dtype = "object"}

\* s != s.lower() and s != s.upper()
MixedCase(c) == c.s # lower(c.s) /\ c.s # upper(c.s)

\* str(s).strip() != str(s)
HasOuterSpace(c) == strip(pystr(c, "object")) # pystr(c, "object")

\* not str(s).isalnum()
NotAlnum(c) == ~isalnum(pystr(c, "object"))

\* s.lower() is looked up on the cell itself: a non-missing cell that is
\* not text has no such attribute
LowerFails(cells) == \E i \in 1..Len(cells) : cells[i].k = "num"

check_format_consistency(d) ==
  IF \E j \in StringCols(d) : LowerFails(d.cols[j].cells)
  THEN Raised("AttributeError")
  ELSE Ok([j \in StringCols(d) |->
             [mixed_case |-> Len(SelectSeq(dropna(d.cols[j].cells), MixedCase)),
              leading_trailing_spaces |-> Len(SelectSeq(dropna(d.cols[j].cells), HasOuterSpace)),
              special_characters |-> Len(SelectSeq(dropna(d.cols[j].cells), NotAlnum))]])

(* ----------------------- formula-error scanner ------------------------ *)

error_patterns ==
  << <<"#","D","I","V","/","0","!">>,
     <<"#","N","/","A">>,
     <<"#","N","A","M","E","?">>,
     <<"#","N","U","L","L","!">>,
     <<"#","N","U","M","!">>,
     <<"#","R","E","F","!">>,
     <<"#","V","A","L","U","E","!">> >>

\* Series.str.contains(pattern) compiles the pattern as a regular
\* expression: a character followed by "?" is optional, any other
\* character of the seven patterns stands for itself
RECURSIVE Compile(_)
Compile(p) ==
  IF p = <<>> THEN <<>>
  ELSE IF Len(p) >= 2 /\ p[2] = "?"
  THEN <<[c |-> p[1], opt |-> TRUE]>> \o Compile(SubSeq(p, 3, Len(p)))
  ELSE <<[c |-> p[1], opt |-> FALSE]>> \o Compile(Tail(p))

\* the compiled pattern matches text starting at position i
RECURSIVE MatchAt(_, _, _)
MatchAt(re, t, i) ==
  IF re = <<>> THEN TRUE
  ELSE \/ i <= Len(t) /\ t[i] = Head(re).c /\ MatchAt(Tail(re), t, i + 1)
       \/ Head(re).opt /\ MatchAt(Tail(re), t, i)

\* re.search(pattern, text) is not None
contains(t, p) ==
  LET re == Compile(p) IN \E i \in 1..(Len(t) + 1) : MatchAt(re, t, i)

\* self.df[col].astype(str).str.contains(pattern).any()
ColumnContains(col, p) ==
  \E i \in 1..Len(col.cells) : contains(pystr(col.cells[i], col.dtype), p)

ColumnErrors(col) ==
  SelectSeq(error_patterns, LAMBDA p : ColumnContains(col, p))

validate_formulas(d) ==
  Ok([j \in {k \in 1..NCols(d) : ColumnErrors(d.cols[k]) # <<>>} |->
        ColumnErrors(d.cols[j])])

(* --------------------- recommendation synthesizer --------------------- *)

\* pct > x for a percentage reported in hundredths; not-a-number compares
\* False
PctGt(p, x) == ~p.nan /\ p.h > 100 * x

Rec(kind, col, n) == [kind |-> kind, col |-> col, n |-> n]

\* the null-value branch with the removal test written pct >= 50
NullRecAtLeastHalf(j, p) ==
  IF PctGt(p, 0)
  THEN IF p.h >= 5000
       THEN <<Rec("remove_column", j, p.h)>>
       ELSE <<Rec("handle_missing", j, p.h)>>
  ELSE <<>>

\* the null-value branch for one column
NullRec(j, p) ==
  IF PctGt(p, 0)
  THEN IF PctGt(p, 50)
       THEN <<Rec("remove_column", j, p.h)>>
       ELSE <<Rec("handle_missing", j, p.h)>>
  ELSE <<>>

DupRec(dups) ==
  IF dups.duplicate_rows > 0
  THEN <<Rec("remove_duplicates", 0, dups.duplicate_rows)>>
  ELSE <<>>

\* the formatting branch for one text column
FormatRec(j, issues) ==
  (IF issues.mixed_case > 0 THEN <<Rec("standardize_case", j, 0)>> ELSE <<>>)
  \o (IF issues.leading_trailing_spaces > 0
      THEN <<Rec("remove_spaces", j, 0)>> ELSE <<>>)

\* the appends made by a loop over the keys of a per-column result, in
\* column order, columns from j on
RECURSIVE NullRecs(_, _)
NullRecs(nulls, j) ==
  IF j > Len(nulls) THEN <<>>
  ELSE NullRec(j, nulls[j]) \o NullRecs(nulls, j + 1)

RECURSIVE FormatRecs(_, _, _)
FormatRecs(fmt, n, j) ==
  IF j > n THEN <<>>
  ELSE (IF j \in DOMAIN fmt THEN FormatRec(j, fmt[j]) ELSE <<>>)
       \o FormatRecs(fmt, n, j + 1)

\* the duplicate block written above the null block
RecommendationsDupsFirst(nullPart, dupPart, formatPart) ==
  dupPart \o nullPart \o formatPart

\* the three blocks append to one list in the order they are written
Recommendations(nullPart, dupPart, formatPart) ==
  nullPart \o dupPart \o formatPart

generate_cleaning_recommendations(d) ==
  LET null_vals == check_null_values(d).val
      dups == check_duplicates(d).val
      format_issues == check_format_consistency(d)
  IN  IF format_issues.raised # "none" THEN format_issues
      ELSE Ok(Recommendations(NullRecs(null_vals, 1),
                              DupRec(dups),
                              FormatRecs(format_issues.val, NCols(d), 1)))

(* ---------------------------- advanced run ---------------------------- *)

\* the methods the class body defines
ClassMethods ==
  {"__init__", "check_null_values", "check_duplicates", "check_column_types",
   "detect_outliers", "check_format_consistency", "validate_formulas",
   "visualize_data_quality", "generate_cleaning_recommendations",
   "run_advanced_checks"}

\* the result main() reads under results["basic_checks"]
run_basic_checks(d) ==
  Ok([null_values |-> check_null_values(d).val,
      duplicates |-> check_duplicates(d).val,
      column_types |-> check_column_types(d).val])

\* the dict display evaluates its values top to bottom; the first one
\* looks up self.run_basic_checks
run_advanced_checks(d) ==
  LET o == detect_outliers(d, "zscore", 3)
      f == check_format_consistency(d)
      v == validate_formulas(d)
      g == generate_cleaning_recommendations(d)
  IN  IF "run_basic_checks" \notin ClassMethods THEN Raised("AttributeError")
      ELSE IF o.raised # "none" THEN o
      ELSE IF f.raised # "none" THEN f
      ELSE IF g.raised # "none" THEN g
      ELSE Ok([basic_checks |-> run_basic_checks(d).val,
               outliers |-> o.val,
               format_consistency |-> f.val,
               formula_errors |-> v.val,
               cleaning_recommendations |-> g.val])

(* ------------------------------- main --------------------------------- *)

ErrorLine(e) == [text |-> "Error", arg |-> e]

Line(t) == [text |-> t, arg |-> "none"]

\* the section headers main() prints once the advanced run has returned
Report(results) ==
  <<Line("=== Excel Data Quality Report ==="),
    Line("1. Basic Checks:"),
    Line("2. Outliers Detected:"),
    Line("3. Format Consistency Issues:"),
    Line("4. Formula Errors:"),
    Line("5. Cleaning Recommendations:")>>

\* everything main() prints: the except clause prints one line for any
\* exception raised in the try block
MainOutput(sh) ==
  LET c == Construct(sh)
      r == run_advanced_checks(c.df)
  IN  IF c.res.raised # "none" THEN <<ErrorLine(c.res.raised)>>
      ELSE IF r.raised # "none" THEN <<ErrorLine(r.raised)>>
      ELSE Report(r.val)

(* --------------------------- state machine ---------------------------- *)

\* (method, threshold) pairs callers pass to detect_outliers; "mad" stands
\* for any method name the function does not know
OutlierArgs == {<<"zscore", 3>>, <<"zscore", 1>>, <<"iqr", 3>>, <<"mad", 3>>}

NoFile == [exists |-> FALSE, ok |-> FALSE, cols |-> <<>>]

Malformed == [exists |-> TRUE, ok |-> FALSE, cols |-> <<>>]

\* the tables with 1..MaxCols columns and 0..MaxRows rows over the cells A,
\* of at most MaxCells cells
Shapes ==
  {s \in (1..MaxCols) \X (0..MaxRows) : s[1] * s[2] <= MaxCells}

Tables(A) == UNION {[1..s[1] -> [1..s[2] -> A]] : s \in Shapes}

Sheets(A) ==
  {NoFile, Malformed} \cup {[exists |-> TRUE, ok |-> TRUE, cols |-> t] : t \in Tables(A)}

NoCall == [call |-> "none", args |-> <<>>, res |-> Ok(<<>>)]

InitOver(A) ==
  /\ sheet \in Sheets(A)
  /\ df = NoDf
  /\ pc = "new"
  /\ parsed = FALSE
  /\ out = <<>>
  /\ last = NoCall

MixedCells == {NaN, Num(1), Str(<<"A","b"," ">>)}

TextCells == {NaN, Str(<<"A","b">>), Str(<<" ","a">>)}

NumberCells == {NaN, Num(1), Num(9)}

TokenCells ==
  {NaN, Str(<<"#","N","A","M","E">>), Str(<<"#","N","A","M","E","?">>),
   Str(<<"a","#","R","E","F","!">>)}

FormatCells ==
  {NaN, Str(<<>>), Str(<<"a","b","c","!">>), Str(<<" ","A","b","c"," ">>)}

Init == InitOver(MixedCells)

InitText == InitOver(TextCells)

InitNumbers == InitOver(NumberCells)

InitTokens == InitOver(TokenCells)

InitFormat == InitOver(FormatCells)

\* check_duplicates dropping the repeated rows in place
DfAfterDropDuplicates(d, call) ==
  IF call = "check_duplicates"
  THEN LET keep == SelectSeq([i \in 1..NRows(d) |-> i],
                             LAMBDA i : ~duplicated(d, i))
       IN  [d EXCEPT !.cols =
              [j \in 1..NCols(d) |->
                 [d.cols[j] EXCEPT !.cells =
                    [k \in 1..Len(keep) |-> d.cols[j].cells[keep[k]]]]]]
  ELSE d

\* self.df after a check method has run: no method assigns self.df or
\* changes it in place (dropna, astype and boolean indexing return copies)
DfAfter(d, call) == d

\* checker = ExcelQualityChecker(path), by a caller other than main()
New ==
  /\ pc = "new"
  /\ LET c == Construct(sheet)
     IN  /\ df' = c.df
         /\ parsed' = c.parsed
         /\ pc' = IF c.res.raised = "none" THEN "ready" ELSE "failed"
         /\ last' = [call |-> "__init__", args |-> <<>>, res |-> c.res]
  /\ UNCHANGED <<sheet, out>>

\* a method call on a constructed checker
Invoke(call, args, res) ==
  /\ pc = "ready"
  /\ last' = [call |-> call, args |-> args, res |-> res]
  /\ df' = DfAfter(df, call)
  /\ UNCHANGED <<sheet, pc, parsed, out>>

CheckNullValues == Invoke("check_null_values", <<>>, check_null_values(df))

CheckDuplicates == Invoke("check_duplicates", <<>>, check_duplicates(df))

CheckColumnTypes == Invoke("check_column_types", <<>>, check_column_types(df))

DetectOutliers ==
  \E a \in OutlierArgs :
    Invoke("detect_outliers", a, detect_outliers(df, a[1], a[2]))

CheckFormatConsistency ==
  Invoke("check_format_consistency", <<>>, check_format_consistency(df))

ValidateFormulas == Invoke("validate_formulas", <<>>, validate_formulas(df))

GenerateCleaningRecommendations ==
  Invoke("generate_cleaning_recommendations", <<>>,
         generate_cleaning_recommendations(df))

RunAdvancedChecks ==
  Invoke("run_advanced_checks", <<>>, run_advanced_checks(df))

\* one run of main(): it builds its own checker, and returns normally
\* whatever happens inside the try block
Main ==
  /\ pc = "new"
  /\ out' = MainOutput(sheet)
  /\ df' = Construct(sheet).df
  /\ parsed' = Construct(sheet).parsed
  /\ pc' = "exited"
  /\ last' = [call |-> "main", args |-> <<>>, res |-> Ok(<<>>)]
  /\ UNCHANGED sheet

Next ==
  \/ New
  \/ Main
  \/ CheckNullValues
  \/ CheckDuplicates
  \/ CheckColumnTypes
  \/ DetectOutliers
  \/ CheckFormatConsistency
  \/ ValidateFormulas
  \/ GenerateCleaningRecommendations
  \/ RunAdvancedChecks

Spec == Init /\ [][Next]_vars

SpecText == InitText /\ [][Next]_vars

SpecNumbers == InitNumbers /\ [][Next]_vars

SpecTokens == InitTokens /\ [][Next]_vars

SpecFormat == InitFormat /\ [][Next]_vars

(* ------------------------------ properties ---------------------------- *)

CheckNames ==
  {"check_null_values", "check_duplicates", "check_column_types",
   "detect_outliers", "check_format_consistency", "validate_formulas",
   "generate_cleaning_recommendations"}

Returned(call) == last.call = call /\ last.res.raised = "none"

\* the outcome of a check method on the Dataset d
Outcome(call, args, d) ==
  CASE call = "check_null_values" -> check_null_values(d)
    [] call = "check_duplicates" -> check_duplicates(d)
    [] call = "check_column_types" -> check_column_types(d)
    [] call = "detect_outliers" -> detect_outliers(d, args[1], args[2])
    [] call = "check_format_consistency" -> check_format_consistency(d)
    [] call = "validate_formulas" -> validate_formulas(d)
    [] call = "generate_cleaning_recommendations" ->
         generate_cleaning_recommendations(d)

SameOutcome(a, b) ==
  a.raised = b.raised /\ (a.raised = "none" => a.val = b.val)

\* p occurs in t as a literal substring
LiteralIn(t, p) ==
  \E i \in 1..(Len(t) - Len(p) + 1) : SubSeq(t, i, i + Len(p) - 1) = p

\* number of entries of the list recs of the given kind for column j
CountRec(recs, kind, j) ==
  Cardinality({i \in 1..Len(recs) : recs[i].kind = kind /\ recs[i].col = j})

\* C1: on a loaded dataset the advanced run returns a mapping from which
\* null_values, duplicates, column_types, outliers, format_consistency,
\* formula_errors and cleaning_recommendations can all be read.
C1_AdvancedRunReturnsAllKeys ==
  last.call = "run_advanced_checks" =>
    /\ last.res.raised = "none"
    /\ {"outliers", "format_consistency", "formula_errors",
        "cleaning_recommendations"} \subseteq DOMAIN last.res.val
    /\ \/ {"null_values", "duplicates", "column_types"}
            \subseteq DOMAIN last.res.val
       \/ /\ "basic_checks" \in DOMAIN last.res.val
          /\ {"null_values", "duplicates", "column_types"}
               \subseteq DOMAIN last.res.val.basic_checks

\* C2: validate_formulas lists a token for a column exactly when some
\* cell's text form contains the token literally; a column with no literal
\* token has no entry.
C2_TokenListedIffLiteral ==
  Returned("validate_formulas") =>
    \A j \in 1..NCols(df) :
      LET listed == IF j \in DOMAIN last.res.val
                    THEN Range(last.res.val[j]) ELSE {}
          col == df.cols[j]
      IN  \A k \in 1..Len(error_patterns) :
            (error_patterns[k] \in listed) <=>
              \E i \in 1..Len(col.cells) :
                LiteralIn(pystr(col.cells[i], col.dtype), error_patterns[k])

\* the non-missing values of a column whose z-score exceeds t, one entry
\* per occurrence
ZscoreExpected(cells, t) ==
  LET xs == Values(cells)
      idx == SelectSeq([i \in 1..Len(xs) |-> i], LAMBDA i : ZExceeds(xs, i, t))
  IN  [k \in 1..Len(idx) |-> xs[idx[k]]]

\* C3: the z-score method returns without error for every numeric column,
\* missing cells or not, and lists exactly the non-missing values whose
\* z-score over the non-missing values exceeds the threshold.
C3_ZscoreListsExtremeValues ==
  (last.call = "detect_outliers" /\ last.args[1] = "zscore") =>
    /\ last.res.raised = "none"
    /\ \A j \in NumericCols(df) :
         /\ j \in DOMAIN last.res.val
         /\ last.res.val[j] = ZscoreExpected(df.cols[j].cells, last.args[2])

DefinedPct(p) == ~p.nan /\ p.h \in 0..10000

\* C4: on a dataset with zero rows check_null_values and check_duplicates
\* return, and every percentage they report is a defined value in 0..100.
C4_ZeroRowsPercentagesDefined ==
  (df.loaded /\ NRows(df) = 0) =>
    /\ last.call = "check_null_values" =>
         /\ last.res.raised = "none"
         /\ \A j \in 1..NCols(df) : DefinedPct(last.res.val[j])
    /\ last.call = "check_duplicates" =>
         /\ last.res.raised = "none"
         /\ DefinedPct(last.res.val.duplicate_percentage)

\* C5: a path that does not exist fails with the Not-Found error before
\* the spreadsheet is parsed; no checker and no check result exists
\* afterwards, and main prints exactly one error line.
C5_MissingFileFailsBeforeAnyCheck ==
  ~sheet.exists =>
    /\ ~df.loaded
    /\ ~parsed
    /\ last.call \in {"none", "__init__", "main"}
    /\ last.call = "__init__" =>
         (last.res.raised = "FileNotFoundError" /\ pc = "failed")
    /\ last.call = "main" => out = <<ErrorLine("FileNotFoundError")>>
    /\ last.call # "main" => out = <<>>

C5_Witness ==
  ~sheet.exists /\ last.call = "main" /\ Len(out) = 1

\* C6: per column, a null percentage above 50 gives exactly one removal
\* recommendation and no handling one, a percentage in (0, 50] exactly one
\* handling recommendation and no removal one, a percentage of 0 neither;
\* a duplicate-rows recommendation appears iff duplicate_rows > 0 and
\* names that count.
C6_RecommendationThresholds ==
  Returned("generate_cleaning_recommendations") =>
    LET recs == last.res.val
        nulls == check_null_values(df).val
        ndup == check_duplicates(df).val.duplicate_rows
        dupRecs == {i \in 1..Len(recs) : recs[i].kind = "remove_duplicates"}
    IN  /\ \A j \in 1..NCols(df) :
             LET removes == CountRec(recs, "remove_column", j)
                 handles == CountRec(recs, "handle_missing", j)
             IN  /\ (~nulls[j].nan /\ nulls[j].h > 5000) =>
                      (removes = 1 /\ handles = 0)
                 /\ (~nulls[j].nan /\ nulls[j].h > 0 /\ nulls[j].h <= 5000) =>
                      (handles = 1 /\ removes = 0)
                 /\ (~nulls[j].nan /\ nulls[j].h = 0) =>
                      (handles = 0 /\ removes = 0)
        /\ (dupRecs # {}) <=> (ndup > 0)
        /\ Cardinality(dupRecs) <= 1
        /\ \A i \in dupRecs : recs[i].n = ndup

C6_Witness ==
  /\ Returned("generate_cleaning_recommendations")
  /\ \E i, j, k \in 1..Len(last.res.val) :
       /\ last.res.val[i].kind = "remove_column"
       /\ last.res.val[j].kind = "handle_missing"
       /\ last.res.val[k].kind = "remove_duplicates"

\* C7: no check changes the loaded Dataset: after any sequence of check
\* calls the Dataset is the freshly loaded one, and the latest check
\* returned what it returns on the freshly loaded Dataset.
C7_ChecksLeaveDatasetUnchanged ==
  pc = "ready" =>
    /\ df = read_excel(sheet)
    /\ last.call \in CheckNames =>
         SameOutcome(last.res, Outcome(last.call, last.args, read_excel(sheet)))

C7_Witness ==
  /\ pc = "ready"
  /\ Returned("check_duplicates")
  /\ last.res.val.duplicate_rows > 0

\* the number of non-missing strings of a column holding a character that
\* is neither a letter nor a digit
SpecialCount(cells) ==
  Cardinality({i \in 1..Len(cells) :
                 /\ cells[i].k = "str"
                 /\ \E k \in 1..Len(cells[i].s) : ~IsAlnumChar(cells[i].s[k])})

C9_DuplicateReport ==
  (Returned("check_duplicates") /\ NRows(df) > 0) =>
    LET r == last.res.val
        n == NRows(df)
        later == {i \in 1..n :
                    \E j \in 1..(i - 1) :
                      \A c \in 1..NCols(df) :
                        df.cols[c].cells[j] = df.cols[c].cells[i]}
    IN  /\ r.total_rows = n
        /\ r.duplicate_rows = Cardinality(later)
        /\ r.duplicate_rows >= 0
        /\ r.duplicate_rows <= n - 1
        /\ ~r.duplicate_percentage.nan
        /\ LET e == r.duplicate_percentage.h * n - r.duplicate_rows * 10000
           IN  2 * e <= n /\ -2 * e <= n

C9_Witness ==
  /\ Returned("check_duplicates")
  /\ last.res.val.duplicate_rows = 2
  /\ last.res.val.duplicate_percentage.h = 6667

\* position of a recommendation's category in the order nulls,
\* duplicates, formatting
Category(rec) ==
  IF rec.kind \in {"remove_column", "handle_missing"} THEN 1
  ELSE IF rec.kind = "remove_duplicates" THEN 2
  ELSE 3

\* C10: null-value recommendations precede the duplicate-rows
\* recommendation, which precedes the formatting recommendations; within
\* the null and the formatting category the order is column order.
C10_RecommendationOrder ==
  Returned("generate_cleaning_recommendations") =>
    LET recs == last.res.val
    IN  \A a, b \in 1..Len(recs) :
          a < b =>
            /\ Category(recs[a]) <= Category(recs[b])
            /\ (Category(recs[a]) = Category(recs[b]) /\ Category(recs[a]) # 2)
                 => recs[a].col <= recs[b].col

C10_Witness ==
  /\ Returned("generate_cleaning_recommendations")
  /\ \E a, b, c, e, f \in 1..Len(last.res.val) :
       /\ Category(last.res.val[a]) = 1
       /\ Category(last.res.val[b]) = 1
       /\ last.res.val[a].col # last.res.val[b].col
       /\ last.res.val[a].n < last.res.val[b].n
       /\ a < b
       /\ Category(last.res.val[c]) = 2
       /\ Category(last.res.val[e]) = 3
       /\ Category(last.res.val[f]) = 3
       /\ last.res.val[e].col # last.res.val[f].col

====
